---- MODULE Spec2Model ----
(***************************************************************************)
(* Model of download_and_create_pdf.py: the sequential download loop of    *)
(* ImageDownloader.download_images, the directory scan of                  *)
(* get_existing_images, the page pipeline of create_pdf, the resize        *)
(* arithmetic, and the exit paths of main.                                 *)
(***************************************************************************)
EXTENDS Integers, Sequences, FiniteSets, TLC

VARIABLES
    caller,               \* "main": the script's entry point; "api": create_pdf called directly
    skip_download,        \* args.skip_download
    server,               \* how the remote server answers (environment)
    max_consecutive_404s, \* self.max_consecutive_404s
    start,                \* download_images(start=...)
    dir,                  \* the files of self.output_dir (set of file names)
    pc,                   \* position of the program
    current,              \* download_images: current
    consecutive_404s,     \* download_images: consecutive_404s
    downloaded_files,     \* download_images: downloaded_files
    response,             \* outcome of the last session.get
    requested,            \* the indexes session.get was called for, in order
    written,              \* the files the run has created in output_dir
    image_files,          \* create_pdf: image_files
    pos,                  \* create_pdf: position of the for loop in image_files
    images,               \* create_pdf: images
    failed,               \* create_pdf: the positions whose processing raised
    original_counted,     \* the positions whose st_size is in total_original_size
    compressed_counted,   \* the positions whose JPEG size is in total_compressed_size
    pdf_pages,            \* the page sequence handed to the PDF writer
    pdf_written,          \* the PDF writer completed
    exit_status,          \* process exit status (meaningful when pc = "exit")
    img_w, img_h,         \* img.width, img.height
    max_dimension,        \* create_pdf(max_dimension=...)
    new_size              \* img.size after the resize step

vars == <<caller, skip_download, server, max_consecutive_404s, start, dir, pc,
          current, consecutive_404s, downloaded_files, response, requested,
          written, image_files,
          pos, images, failed, original_counted, compressed_counted,
          pdf_pages, pdf_written, exit_status,
          img_w, img_h, max_dimension, new_size>>

downloadVars == <<current, consecutive_404s, downloaded_files, response,
                  requested, written>>
sizeVars == <<original_counted, compressed_counted>>
pdfVars == <<image_files, pos, images, failed, pdf_pages, pdf_written,
             original_counted, compressed_counted>>
resizeVars == <<img_w, img_h, max_dimension, new_size>>
inputVars == <<caller, skip_download, server, max_consecutive_404s, start>>

(***************************************************************************)
(* Bounds of the model.                                                    *)
(***************************************************************************)
MaxThreshold == 5      \* thresholds 1..MaxThreshold
MaxReq == 5            \* requests of a run against the unconstrained server
MaxScriptReq == 11     \* requests of a run against a scripted server
PrefixLen == 2         \* requests answered freely before the 404s set in
StartHigh == 999998    \* a start index close to the end of the six-digit range
MaxStale == 2          \* indexes of files already in the output directory
MaxDim == 7            \* image widths and heights 1..MaxDim
MaxM == 5              \* max_dimension 1..MaxM

(***************************************************************************)
(* Program constants.                                                      *)
(***************************************************************************)
PadWidth == 6              \* {current:06d}
MainStart == 1             \* main: start=1

Min(a, b) == IF a <= b THEN a ELSE b
Max(a, b) == IF a >= b THEN a ELSE b
Range(s) == {s[k] : k \in 1..Len(s)}

(***************************************************************************)
(* File names.  A name is the sequence of its characters' code points, so  *)
(* that the order sorted() puts on paths is the order of the model.        *)
(***************************************************************************)
NamePrefix == <<105, 109, 97, 103, 101, 95>>     \* "image_"
NameSuffix == <<46, 106, 112, 50>>               \* ".jp2"
DigitZero == 48                                  \* "0"

RECURSIVE DigitsOf(_)
DigitsOf(n) == IF n < 10 THEN <<n>> ELSE DigitsOf(n \div 10) \o <<n % 10>>

\* format(n, "06d"): zero-padded to a minimum width of PadWidth
Format06d(n) ==
    LET ds == DigitsOf(n)
        padded == IF Len(ds) >= PadWidth THEN ds
                  ELSE [k \in 1..(PadWidth - Len(ds)) |-> 0] \o ds
    IN [k \in 1..Len(padded) |-> DigitZero + padded[k]]

\* self.output_dir / f"image_{current:06d}.jp2"
Filename(n) == NamePrefix \o Format06d(n) \o NameSuffix

\* the order of str (and of Path within one directory): by code point, a
\* proper prefix first
LexLess(a, b) ==
    \E k \in 1..(Min(Len(a), Len(b)) + 1) :
        /\ \A j \in 1..(k - 1) : a[j] = b[j]
        /\ IF k > Len(a) THEN k <= Len(b)
           ELSE k <= Len(b) /\ a[k] < b[k]

RECURSIVE SortedSeq(_)
SortedSeq(S) ==
    IF S = {} THEN <<>>
    ELSE LET m == CHOOSE x \in S : \A y \in S : x = y \/ LexLess(x, y)
         IN <<m>> \o SortedSeq(S \ {m})

\* glob("*.jp2"): the names that end in ".jp2"
MatchesJp2(f) ==
    /\ Len(f) >= Len(NameSuffix)
    /\ SubSeq(f, Len(f) - Len(NameSuffix) + 1, Len(f)) = NameSuffix

\* sorted(self.output_dir.glob("*.jp2"))
GetExistingImages(d) == SortedSeq({f \in d : MatchesJp2(f)})

(***************************************************************************)
(* The server.                                                             *)
(***************************************************************************)
StatusCodes == {"200", "404", "500"}
Exceptions == {"Timeout", "RequestException"}
FetchResults == StatusCodes \cup Exceptions

Servers == {"free", "alternating", "example", "then404", "failing"}

\* 404,404,200,404,404,404,404,404
ExampleScript == <<"404", "404", "200", "404", "404", "404", "404", "404">>

\* what the k-th request of a run (k = 1, 2, ...) may come back with
Responses(srv, k) ==
    CASE srv = "free" -> FetchResults
      [] srv = "alternating" -> IF k % 2 = 1 THEN {"500"} ELSE {"404"}
      [] srv = "example" -> IF k <= Len(ExampleScript) THEN {ExampleScript[k]}
                            ELSE {"404"}
      \* anything for the first PrefixLen requests, 404 from then on
      [] srv = "then404" -> IF k <= PrefixLen THEN FetchResults ELSE {"404"}
      \* never 200 and never 404: another status, a timeout, a transport error
      [] srv = "failing" -> FetchResults \ {"200", "404"}

ReqCap(srv) ==
    CASE srv = "free" -> MaxReq
      [] srv = "then404" -> PrefixLen + max_consecutive_404s
      [] OTHER -> MaxScriptReq

Requests == current - start

(***************************************************************************)
(* download_images                                                         *)
(***************************************************************************)
\* while consecutive_404s < self.max_consecutive_404s
LoopCond(c) == c < max_consecutive_404s

\* a success that leaves the counter as it was
CounterKept200(c) == c

\* consecutive_404s = 0  # Reset counter on success
CounterAfter200(c) == 0

\* a 404 that is not counted
CounterKept404(c) == c

\* consecutive_404s += 1
CounterAfter404(c) == c + 1

\* a failure other than 404 that resets the counter
CounterResetOther(c) == 0

\* a failure other than 404 that counts as a 404
CounterCountedOther(c) == c + 1

\* the else branch and the two except clauses leave the counter alone
CounterAfterOther(c) == c

\* an index that does not advance
NextCurrentStuck(c) == c

\* current += 1
NextCurrent(c) == c + 1

\* the loop test that follows an iteration
AfterIteration(c) == IF LoopCond(c) THEN "download" ELSE "downloaded"

CanRequest(r) ==
    /\ pc = "download"
    /\ Requests < ReqCap(server)
    /\ r \in Responses(server, Requests + 1)

\* main: the else branch of "if args.skip_download"; download_images up to
\* the first loop test
StartDownload ==
    /\ pc = "main"
    /\ caller = "main"
    /\ ~skip_download
    /\ downloaded_files' = <<>>
    /\ consecutive_404s' = 0
    /\ current' = start
    /\ response' = "none"
    /\ requested' = <<>>
    /\ written' = {}
    /\ pc' = AfterIteration(0)
    /\ UNCHANGED <<inputVars, dir, pdfVars, exit_status, resizeVars>>

\* status 200, the body is saved
Fetch200 ==
    /\ CanRequest("200")
    /\ response' = "200"
    /\ requested' = Append(requested, current)
    /\ dir' = dir \cup {Filename(current)}
    /\ written' = written \cup {Filename(current)}
    /\ downloaded_files' = Append(downloaded_files, Filename(current))
    /\ consecutive_404s' = CounterAfter200(consecutive_404s)
    /\ current' = NextCurrent(current)
    /\ pc' = AfterIteration(consecutive_404s')
    /\ UNCHANGED <<inputVars, pdfVars, exit_status, resizeVars>>

\* status 200, open() or f.write() raises OSError: no except clause matches,
\* the exception leaves download_images.  open() may have created the file.
Fetch200SaveFails ==
    /\ CanRequest("200")
    /\ response' = "200"
    /\ requested' = Append(requested, current)
    /\ \E created \in BOOLEAN :
           /\ dir' = IF created THEN dir \cup {Filename(current)} ELSE dir
           /\ written' = IF created THEN written \cup {Filename(current)}
                         ELSE written
    /\ pc' = "raised"
    /\ UNCHANGED <<inputVars, current, consecutive_404s, downloaded_files,
                   pdfVars, exit_status, resizeVars>>

\* status 404
Fetch404 ==
    /\ CanRequest("404")
    /\ response' = "404"
    /\ consecutive_404s' = CounterAfter404(consecutive_404s)
    /\ current' = NextCurrent(current)
    /\ pc' = AfterIteration(consecutive_404s')
    /\ requested' = Append(requested, current)
    /\ UNCHANGED <<inputVars, dir, written, downloaded_files, pdfVars,
                   exit_status, resizeVars>>

\* any other status
FetchOtherStatus ==
    /\ \E r \in StatusCodes \ {"200", "404"} :
           /\ CanRequest(r)
           /\ response' = r
    /\ consecutive_404s' = CounterAfterOther(consecutive_404s)
    /\ current' = NextCurrent(current)
    /\ pc' = AfterIteration(consecutive_404s')
    /\ requested' = Append(requested, current)
    /\ UNCHANGED <<inputVars, dir, written, downloaded_files, pdfVars,
                   exit_status, resizeVars>>

\* except requests.exceptions.Timeout
FetchTimeout ==
    /\ CanRequest("Timeout")
    /\ response' = "Timeout"
    /\ consecutive_404s' = CounterAfterOther(consecutive_404s)
    /\ current' = NextCurrent(current)
    /\ pc' = AfterIteration(consecutive_404s')
    /\ requested' = Append(requested, current)
    /\ UNCHANGED <<inputVars, dir, written, downloaded_files, pdfVars,
                   exit_status, resizeVars>>

\* except requests.exceptions.RequestException
FetchRequestException ==
    /\ CanRequest("RequestException")
    /\ response' = "RequestException"
    /\ consecutive_404s' = CounterAfterOther(consecutive_404s)
    /\ current' = NextCurrent(current)
    /\ pc' = AfterIteration(consecutive_404s')
    /\ requested' = Append(requested, current)
    /\ UNCHANGED <<inputVars, dir, written, downloaded_files, pdfVars,
                   exit_status, resizeVars>>

(***************************************************************************)
(* main                                                                    *)
(***************************************************************************)
\* main: "if args.skip_download": the directory is scanned instead
SkipDownload ==
    /\ pc = "main"
    /\ caller = "main"
    /\ skip_download
    /\ image_files' = GetExistingImages(dir)
    /\ IF image_files' = <<>>
       THEN pc' = "exit" /\ exit_status' = 1
       ELSE pc' = "create_pdf" /\ exit_status' = exit_status
    /\ UNCHANGED <<inputVars, dir, downloadVars, sizeVars, pos, images, failed,
                   pdf_pages, pdf_written, resizeVars>>

\* main: download_images has returned; "if not image_files: sys.exit(1)"
AfterDownload ==
    /\ pc = "downloaded"
    /\ image_files' = downloaded_files
    /\ IF image_files' = <<>>
       THEN pc' = "exit" /\ exit_status' = 1
       ELSE pc' = "create_pdf" /\ exit_status' = exit_status
    /\ UNCHANGED <<inputVars, dir, downloadVars, sizeVars, pos, images, failed,
                   pdf_pages, pdf_written, resizeVars>>

\* an exception that nothing catches ends the interpreter with status 1
UncaughtException ==
    /\ pc \in {"raised", "pdf_raised"}
    /\ caller = "main"
    /\ pc' = "exit"
    /\ exit_status' = 1
    /\ UNCHANGED <<inputVars, dir, downloadVars, pdfVars, resizeVars>>

\* main: create_pdf has returned (it returns None on every path) and main
\* falls off its end
MainEnd ==
    /\ pc = "pdf_returned"
    /\ caller = "main"
    /\ pc' = "exit"
    /\ exit_status' = 0
    /\ UNCHANGED <<inputVars, dir, downloadVars, pdfVars, resizeVars>>

(***************************************************************************)
(* create_pdf                                                              *)
(***************************************************************************)
\* a save that hands over images[1:] alone
PagesHandedTail(imgs) == SubSeq(imgs, 2, Len(imgs))

\* images[0].save(output_path, save_all=True, append_images=images[1:], ...)
PagesHanded(imgs) == <<imgs[1]>> \o SubSeq(imgs, 2, Len(imgs))

\* images.append(img)
AppendPage(imgs, p) == Append(imgs, p)

\* "if not image_files: return", else the set-up of the loop
CreatePdfEnter ==
    /\ pc = "create_pdf"
    /\ IF image_files = <<>>
       THEN pc' = "pdf_returned"
       ELSE pc' = "process"
    /\ pos' = 1
    /\ images' = <<>>
    /\ failed' = {}
    /\ original_counted' = {}
    /\ compressed_counted' = {}
    /\ UNCHANGED <<inputVars, dir, downloadVars, image_files, pdf_pages,
                   pdf_written, exit_status, resizeVars>>

\* total_original_size += img_path.stat().st_size
CountOriginal(counted, p) == counted \cup {p}

\* total_compressed_size += buffer.tell()
CountCompressed(counted, p) == counted \cup {p}

\* one iteration of the for loop in which every step succeeds
ProcessImage ==
    /\ pc = "process"
    /\ pos <= Len(image_files)
    /\ original_counted' = CountOriginal(original_counted, pos)
    /\ compressed_counted' = CountCompressed(compressed_counted, pos)
    /\ images' = AppendPage(images, image_files[pos])
    /\ pos' = pos + 1
    /\ UNCHANGED <<inputVars, dir, downloadVars, image_files, failed,
                   pdf_pages, pdf_written, pc, exit_status, resizeVars>>

\* one iteration in which Image.open or stat() raises: "except Exception"
\* prints a warning
ProcessImageFails ==
    /\ pc = "process"
    /\ pos <= Len(image_files)
    /\ pos' = pos + 1
    /\ failed' = failed \cup {pos}
    /\ UNCHANGED <<inputVars, dir, downloadVars, sizeVars, image_files, images,
                   pdf_pages, pdf_written, pc, exit_status, resizeVars>>

\* one iteration in which a later step raises, after the original size was
\* added: the resize, the conversion to RGB or the JPEG save (the compressed
\* size not yet added), or reopening the buffer (the compressed size added)
ProcessImageFailsLate ==
    /\ pc = "process"
    /\ pos <= Len(image_files)
    /\ original_counted' = CountOriginal(original_counted, pos)
    /\ \E reencoded \in BOOLEAN :
           compressed_counted' = IF reencoded
                                 THEN CountCompressed(compressed_counted, pos)
                                 ELSE compressed_counted
    /\ pos' = pos + 1
    /\ failed' = failed \cup {pos}
    /\ UNCHANGED <<inputVars, dir, downloadVars, image_files, images,
                   pdf_pages, pdf_written, pc, exit_status, resizeVars>>

\* a check that prints its message and falls through to the save
NoValidImagesWrites ==
    /\ pc = "process"
    /\ pos > Len(image_files)
    /\ images = <<>>
    /\ pdf_written' = TRUE
    /\ pc' = "pdf_returned"
    /\ UNCHANGED <<inputVars, dir, downloadVars, sizeVars, image_files, pos, images,
                   failed, pdf_pages, exit_status, resizeVars>>

\* "if not images: return"
NoValidImages ==
    /\ pc = "process"
    /\ pos > Len(image_files)
    /\ images = <<>>
    /\ pc' = "pdf_returned"
    /\ UNCHANGED <<inputVars, dir, downloadVars, pdfVars, exit_status,
                   resizeVars>>

\* images[0].save(...): the PDF is written
SavePdf ==
    /\ pc = "process"
    /\ pos > Len(image_files)
    /\ images # <<>>
    /\ pdf_pages' = PagesHanded(images)
    /\ pdf_written' = TRUE
    /\ pc' = "pdf_returned"
    /\ UNCHANGED <<inputVars, dir, downloadVars, sizeVars, image_files, pos, images,
                   failed, exit_status, resizeVars>>

\* images[0].save(...) raises: the exception leaves create_pdf
SavePdfFails ==
    /\ pc = "process"
    /\ pos > Len(image_files)
    /\ images # <<>>
    /\ pdf_pages' = PagesHanded(images)
    /\ pc' = "pdf_raised"
    /\ UNCHANGED <<inputVars, dir, downloadVars, sizeVars, image_files, pos, images,
                   failed, pdf_written, exit_status, resizeVars>>

(***************************************************************************)
(* The resize step of create_pdf                                           *)
(***************************************************************************)
\* if img.width > max_dimension or img.height > max_dimension
TooLarge(w, h, m) == w > m \/ h > m

\* a product that is rounded to the nearest integer
ScaledRounded(d, w, h, m) == (2 * d * m + Max(w, h)) \div (2 * Max(w, h))

\* int(d * min(m / w, m / h)) for positive integers: min(m/w, m/h) is
\* m / max(w, h), and int() truncates
Scaled(d, w, h, m) == (d * m) \div Max(w, h)

\* new_size = (int(img.width * ratio), int(img.height * ratio))
NewSize(w, h, m) ==
    IF TooLarge(w, h, m) THEN <<Scaled(w, w, h, m), Scaled(h, w, h, m)>>
    ELSE <<w, h>>

Resize ==
    /\ pc = "resize"
    /\ new_size' = NewSize(img_w, img_h, max_dimension)
    /\ pc' = "resized"
    /\ UNCHANGED <<inputVars, dir, downloadVars, pdfVars, exit_status,
                   img_w, img_h, max_dimension>>

(***************************************************************************)
(* Specifications                                                          *)
(***************************************************************************)
Starts == {MainStart, StartHigh}
Thresholds == 1..MaxThreshold
StaleDirs == SUBSET {Filename(n) : n \in 1..MaxStale}
\* the lists create_pdf is called with directly
ApiLists == {<<>>, <<Filename(1)>>, <<Filename(2), Filename(1)>>,
             <<Filename(1), Filename(2), Filename(3)>>}

Init ==
    /\ caller \in {"main", "api"}
    /\ IF caller = "main"
       THEN /\ skip_download \in BOOLEAN
            /\ IF skip_download
               THEN server = "free" /\ max_consecutive_404s = MaxThreshold
                    /\ start = MainStart
               ELSE server \in Servers /\ max_consecutive_404s \in Thresholds
                    /\ start \in Starts
            /\ dir \in StaleDirs
            /\ image_files = <<>>
            /\ pc = "main"
       ELSE /\ skip_download = FALSE
            /\ server = "free"
            /\ max_consecutive_404s = MaxThreshold
            /\ start = MainStart
            /\ dir = {}
            /\ image_files \in ApiLists
            /\ pc = "create_pdf"
    /\ current = start
    /\ consecutive_404s = 0
    /\ downloaded_files = <<>>
    /\ response = "none"
    /\ requested = <<>>
    /\ written = {}
    /\ pos = 1
    /\ images = <<>>
    /\ failed = {}
    /\ original_counted = {}
    /\ compressed_counted = {}
    /\ pdf_pages = <<>>
    /\ pdf_written = FALSE
    /\ exit_status = 0
    /\ img_w = 1
    /\ img_h = 1
    /\ max_dimension = 1
    /\ new_size = <<1, 1>>

Next ==
    \/ StartDownload
    \/ Fetch200
    \/ Fetch200SaveFails
    \/ Fetch404
    \/ FetchOtherStatus
    \/ FetchTimeout
    \/ FetchRequestException
    \/ SkipDownload
    \/ AfterDownload
    \/ UncaughtException
    \/ MainEnd
    \/ CreatePdfEnter
    \/ ProcessImage
    \/ ProcessImageFails
    \/ ProcessImageFailsLate
    \/ NoValidImages
    \/ SavePdf
    \/ SavePdfFails

Spec == Init /\ [][Next]_vars

\* the program is sequential and every statement completes (the request has a
\* timeout, the pause is fixed): a step that can be taken is taken
NextDownload ==
    \/ StartDownload
    \/ Fetch200
    \/ Fetch200SaveFails
    \/ Fetch404
    \/ FetchOtherStatus
    \/ FetchTimeout
    \/ FetchRequestException

InitDownload == Init /\ caller = "main" /\ ~skip_download

\* download_images on its own, from its call to its return
LiveSpec == InitDownload /\ [][NextDownload]_vars /\ WF_vars(NextDownload)

\* the resize arithmetic on its own: every width, height and max_dimension
InitResize ==
    /\ caller = "api"
    /\ skip_download = FALSE
    /\ server = "free"
    /\ max_consecutive_404s = MaxThreshold
    /\ start = MainStart
    /\ dir = {}
    /\ image_files = <<>>
    /\ pc = "resize"
    /\ current = start
    /\ consecutive_404s = 0
    /\ downloaded_files = <<>>
    /\ response = "none"
    /\ requested = <<>>
    /\ written = {}
    /\ pos = 1
    /\ images = <<>>
    /\ failed = {}
    /\ original_counted = {}
    /\ compressed_counted = {}
    /\ pdf_pages = <<>>
    /\ pdf_written = FALSE
    /\ exit_status = 0
    /\ img_w \in 1..MaxDim
    /\ img_h \in 1..MaxDim
    /\ max_dimension \in 1..MaxM
    /\ new_size = <<img_w, img_h>>

NextResize == Resize

SpecResize == InitResize /\ [][NextResize]_vars

(***************************************************************************)
(* Properties                                                              *)
(***************************************************************************)
RECURSIVE NumberOf(_)
\* the number a sequence of digit characters denotes
NumberOf(cs) ==
    IF cs = <<>> THEN 0
    ELSE 10 * NumberOf(SubSeq(cs, 1, Len(cs) - 1)) + (cs[Len(cs)] - DigitZero)

\* the numeric index encoded in a file name
IndexOf(f) ==
    NumberOf(SubSeq(f, Len(NamePrefix) + 1, Len(f) - Len(NameSuffix)))

RECURSIVE Keep(_, _, _)
\* the subsequence of s at the positions from k on that are not in drop
Keep(s, drop, k) ==
    IF k > Len(s) THEN <<>>
    ELSE (IF k \in drop THEN <<>> ELSE <<s[k]>>) \o Keep(s, drop, k + 1)

OtherResults == FetchResults \ {"200", "404"}
CreatePdfOver == pc \in {"pdf_returned", "pdf_raised", "exit"}

\* C1: the download loop is running only while consecutive_404s is below
\* max_consecutive_404s and has returned only with the two equal; a 200
\* response leaves the counter at 0; against 404,404,200,404,404,404,404,404
\* with threshold 5 the loop runs through the 7th request and has returned
\* right after the 8th.
C1_StopExactlyAtThreshold ==
    /\ pc = "download" => consecutive_404s < max_consecutive_404s
    /\ pc = "downloaded" => consecutive_404s = max_consecutive_404s
    /\ (pc = "download" /\ response = "200") => consecutive_404s = 0
    /\ (server = "example" /\ max_consecutive_404s = 5) =>
           /\ pc = "download" => Requests < 8
           /\ pc = "downloaded" => Requests = 8

C1_Witness ==
    /\ server = "example"
    /\ max_consecutive_404s = 5
    /\ pc = "downloaded"
    /\ Requests = 8
    /\ Len(downloaded_files) = 1

\* C2 as stated: with threshold 5 against 500,404,500,404,... the loop never
\* stops.
C2_AlternatingNeverStops ==
    (server = "alternating" /\ max_consecutive_404s = 5) =>
        pc \in {"main", "download"}

\* C2 as amended: with threshold 5 against 500,404,500,404,... the counter
\* is the number of 404 responses seen so far (a 500 neither counts nor
\* resets), and the loop stops right after the 10th request, the fifth 404.
C2_AlternatingStopsAtFifth404 ==
    (server = "alternating" /\ max_consecutive_404s = 5) =>
        /\ consecutive_404s = Requests \div 2
        /\ pc = "download" => Requests < 10
        /\ pc \notin {"main", "download"} => Requests = 10

C2_Witness ==
    /\ server = "alternating"
    /\ max_consecutive_404s = 5
    /\ pc = "downloaded"
    /\ Requests = 10
    /\ response = "404"

\* C3: downloaded_files is strictly increasing in the index its file names
\* encode, at every point of every run.
C3_StrictlyIncreasing ==
    \A i, j \in 1..Len(downloaded_files) :
        i < j => IndexOf(downloaded_files[i]) < IndexOf(downloaded_files[j])

C3_Witness ==
    /\ Len(downloaded_files) >= 3
    /\ IndexOf(downloaded_files[Len(downloaded_files)]) > StartHigh + 1

\* C4: when at least one image processed, the pages handed to the PDF writer
\* are the input paths whose processing did not raise, in input order; every
\* input was visited.
C4_PagesAreTheValidInputs ==
    (CreatePdfOver /\ Cardinality(failed) < Len(image_files)) =>
        /\ pos = Len(image_files) + 1
        /\ pdf_pages = Keep(image_files, failed, 1)
        /\ Len(pdf_pages) = Len(image_files) - Cardinality(failed)

C4_Witness ==
    /\ pdf_written
    /\ 1 \in failed
    /\ Len(pdf_pages) >= 2
    /\ Len(image_files) > Len(pdf_pages)

\* C5: with an empty input list, or with every image failing, the save step
\* is never reached and nothing is written.
C5_NoPdfWithoutImages ==
    (image_files = <<>> \/ Cardinality(failed) = Len(image_files)) =>
        /\ pdf_pages = <<>>
        /\ ~pdf_written
        /\ pc # "pdf_raised"

C5_Witness ==
    /\ pc = "pdf_returned"
    /\ Len(image_files) >= 2
    /\ Cardinality(failed) = Len(image_files)

\* the other case of C5: create_pdf called with an empty list has returned
C5_WitnessEmptyInput ==
    /\ caller = "api"
    /\ pc = "pdf_returned"
    /\ image_files = <<>>

\* C6 as stated: a run that ends without a PDF exits with a non-zero status;
\* a run that exits with status 0 has written a PDF.
C6_ExitZeroOnlyWithPdf ==
    (pc = "exit" /\ exit_status = 0) => pdf_written

\* C7 as stated, for a directory that holds the run's files and no others:
\* get_existing_images returns the list download_images returned.
C7_ExistingEqualsDownloaded ==
    (pc = "downloaded" /\ dir = Range(downloaded_files)) =>
        GetExistingImages(dir) = downloaded_files

\* C8 as stated: download_images never raises to its caller.
C8_DownloadNeverRaises ==
    pc # "raised"

\* C9 as stated: an image within max_dimension keeps its size; otherwise the
\* larger new dimension is max_dimension, both are at least 1 and at most the
\* originals, and the aspect ratio is kept within one pixel.
C9_ResizeContract ==
    pc = "resized" =>
        IF img_w <= max_dimension /\ img_h <= max_dimension
        THEN new_size = <<img_w, img_h>>
        ELSE /\ Max(new_size[1], new_size[2]) = max_dimension
             /\ new_size[1] >= 1 /\ new_size[2] >= 1
             /\ new_size[1] <= img_w /\ new_size[2] <= img_h
             /\ new_size[2] * img_w - new_size[1] * img_h <= img_w
             /\ new_size[1] * img_h - new_size[2] * img_w <= img_w
             /\ new_size[1] * img_h - new_size[2] * img_w <= img_h
             /\ new_size[2] * img_w - new_size[1] * img_h <= img_h

\* C10: an iteration that ends in a status other than 200 and 404, a timeout
\* or a transport error leaves consecutive_404s, downloaded_files and the
\* directory as they were.
C10_OtherOutcomesChangeNothing ==
    [][(pc = "download" /\ current' # current /\ response' \in OtherResults) =>
          /\ consecutive_404s' = consecutive_404s
          /\ downloaded_files' = downloaded_files
          /\ dir' = dir]_vars

C10_Witness ==
    /\ response \in OtherResults
    /\ consecutive_404s > 0
    /\ downloaded_files # <<>>
    /\ pc = "download"

\* C11: once the run has reached the index from which every request returns
\* 404, download_images eventually returns, with consecutive_404s equal to
\* max_consecutive_404s, for every start index and threshold.
C11_TerminatesOn404s ==
    (server = "then404" /\ pc = "download" /\ Requests >= PrefixLen)
        ~> (pc = "downloaded" /\ consecutive_404s = max_consecutive_404s)

C11_Witness ==
    /\ server = "then404"
    /\ pc = "downloaded"
    /\ Requests > PrefixLen
    /\ downloaded_files # <<>>
    /\ consecutive_404s = max_consecutive_404s
    /\ max_consecutive_404s > 1

\* C12: against a server that never answers 200 or 404 (another status, a
\* timeout or a transport error, every time) the loop never stops: whatever
\* the number of requests made, the counter is 0 and the loop is running.
C12_NeverStopsWithout404 ==
    server = "failing" =>
        /\ pc \in {"main", "download"}
        /\ consecutive_404s = 0
        /\ LoopCond(consecutive_404s)

C12_Witness ==
    /\ server = "failing"
    /\ pc = "download"
    /\ Requests = MaxScriptReq
    /\ response = "Timeout"

\* C13 as stated: at every step the files the run has written are the paths
\* in downloaded_files, and the file of the index just requested has been
\* written if and only if its response had status 200.
C13_WrittenIsDownloaded ==
    /\ written = Range(downloaded_files)
    /\ requested # <<>> =>
           (Filename(requested[Len(requested)]) \in written
                <=> response = "200")

\* C14: the indexes requested are start, start + 1, start + 2, ... with none
\* skipped and none repeated, and each completed iteration has made one
\* request and advanced current by one (the iteration that raises has made
\* its request and not advanced).
C14_RequestsAreConsecutive ==
    /\ \A k \in 1..Len(requested) : requested[k] = start + (k - 1)
    /\ pc \in {"download", "downloaded"} => Len(requested) = current - start
    /\ pc = "raised" => Len(requested) = current - start + 1
    /\ Len(requested) - (current - start) \in {0, 1}

C14_Witness ==
    /\ Len(requested) >= 4
    /\ response = "Timeout"
    /\ downloaded_files # <<>>
    /\ consecutive_404s > 0

C16_TotalsOverThePages ==
    (pc = "process" /\ pos > Len(image_files)) =>
        /\ original_counted = compressed_counted
        /\ original_counted = (1..Len(image_files)) \ failed

====
